---- MODULE Spec2Model ----
(***************************************************************************)
(* Live audio translator: the capture filter, the three queue-connected    *)
(* workers (translation, TTS, playback), the mute/unmute flags that pause  *)
(* capture while synthesized audio plays, and start()/stop().              *)
(*                                                                         *)
(* Threads: the main thread (start, stop), the capture session's delivery  *)
(* thread (the _on_* handlers), the translation worker, the TTS worker and *)
(* the playback worker.  A step is one handler or one stretch of a         *)
(* thread's code between two accesses to state another thread writes.      *)
(*                                                                         *)
(* A text is a sequence of one-character strings.                          *)
(***************************************************************************)
EXTENDS Naturals, Sequences, FiniteSets

\* Accepted phrases per run (the model's bound on the capture input).
MaxTurns == 2

----------------------------------------------------------------------------
(* Texts: str.strip() and str.lower()                                      *)

IsSpace(c) == c = " "

LowerChar(c) ==
  CASE c = "H" -> "h"
    [] c = "L" -> "l"
    [] c = "P" -> "p"
    [] OTHER -> c

lower(s) == [i \in DOMAIN s |-> LowerChar(s[i])]

RECURSIVE lstrip(_)
lstrip(s) == IF s # <<>> /\ IsSpace(Head(s)) THEN lstrip(Tail(s)) ELSE s

RECURSIVE rstrip(_)
rstrip(s) ==
  IF s # <<>> /\ IsSpace(s[Len(s)]) THEN rstrip(SubSeq(s, 1, Len(s) - 1)) ELSE s

strip(s) == rstrip(lstrip(s))

\* The transcripts the recognizer may deliver: empty, blank, short, and one
\* filler word of each language in two spellings and with blanks around it.
Transcripts ==
  { <<>>,
    << " " >>,
    << "u", "m" >>,
    << "H", "e", "y" >>,
    << "l", "i", "k", "e" >>,
    << "L", "i", "k", "e" >>,
    << " ", "L", "i", "k", "e", " " >>,
    << "p", "u", "e", "s" >>,
    << "P", "u", "e", "s" >>,
    << " ", "P", "u", "e", "s", " " >> }

TurnEvents ==
  [transcript : Transcripts, end_of_turn : BOOLEAN, turn_is_formatted : BOOLEAN]

Languages == {"en", "es"}

----------------------------------------------------------------------------
(* AudioCaptureManager._on_turn: the filter                                *)

english_filler_words ==
  { << "u", "m" >>, << "u", "h" >>, << "a", "h" >>, << "e", "r" >>,
    << "l", "i", "k", "e" >>,
    << "y", "o", "u", " ", "k", "n", "o", "w" >> }

spanish_filler_words ==
  { << "e", "h" >>, << "e", "m" >>, << "e", "s", "t", "e" >>,
    << "b", "u", "e", "n", "o" >>, << "p", "u", "e", "s" >>,
    << "e", "n", "t", "o", "n", "c", "e", "s" >>,
    << "o", " ", "s", "e", "a" >> }

filler_words(lang) ==
  IF lang = "es" THEN spanish_filler_words ELSE english_filler_words

min_length == 3

LongerThan_Mutant(text, n) == Len(text) >= n

\* len(transcript_text) > min_length
LongerThan(text, n) == Len(text) > n

NotFiller_Mutant(text, lang) == TRUE

\* not transcript_text.lower() in spanish_filler_words
NotFiller(text, lang) == lower(text) \notin filler_words(lang)

NotDuplicate_Mutant(text, last) == TRUE

\* transcript_text != self.last_processed_text
NotDuplicate(text, last) == text # last

FilterAccepts_Mutant(ev, last, lang) ==
  LET transcript_text == strip(ev.transcript) IN
    /\ ev.turn_is_formatted
    /\ transcript_text # <<>>
    /\ LongerThan(transcript_text, min_length)
    /\ NotDuplicate(transcript_text, last)
    /\ NotFiller(transcript_text, lang)

\* The condition of the if statement, on the stripped transcript.
FilterAccepts(ev, last, lang) ==
  LET transcript_text == strip(ev.transcript) IN
    /\ ev.end_of_turn
    /\ ev.turn_is_formatted
    /\ transcript_text # <<>>
    /\ LongerThan(transcript_text, min_length)
    /\ NotDuplicate(transcript_text, last)
    /\ NotFiller(transcript_text, lang)

TurnAccepted_Mutant(ev, paused, last, lang) == FilterAccepts(ev, last, lang)

\* _on_turn emits a phrase: not paused, and the filter accepts.
TurnAccepted(ev, paused, last, lang) ==
  ~paused /\ FilterAccepts(ev, last, lang)

----------------------------------------------------------------------------
(* LiveTranslator._translation_callback and queue_translation              *)

coordinator_filler_words ==
  { << "u", "m" >>, << "u", "h" >>, << "a", "h" >>, << "e", "r" >> }

CoordinatorAccepts_Mutant(text, is_finalized) ==
  /\ is_finalized
  /\ strip(text) # <<>>
  /\ Len(strip(text)) > 2
  /\ lower(strip(text)) \notin english_filler_words

CoordinatorAccepts(text, is_finalized) ==
  /\ is_finalized
  /\ strip(text) # <<>>
  /\ Len(strip(text)) > 2
  /\ lower(strip(text)) \notin coordinator_filler_words

\* queue.Queue(): no maxsize is given, and a queue of maxsize 0 takes every
\* item put on it.
maxsize == 0

\* The queue has a capacity.
HasCapacity == maxsize > 0

Full_Mutant(q) == Len(q) >= 1

\* queue.Queue.put waits while the queue is full, which a queue without a
\* capacity never is.
Full(q) == HasCapacity /\ Len(q) >= maxsize

\* queue_translation, queue_tts and queue_audio have no else branch: an item
\* that is not put on the queue is not logged either.
push_logs_drop == FALSE

put_if_text_Mutant(q, text) ==
  IF strip(text) # <<>> THEN << text >> \o q ELSE q

\* queue.put(text) when text.strip() is not empty (all three push operations).
put_if_text(q, text) == IF strip(text) # <<>> THEN Append(q, text) ELSE q

\* The translation queue after the transcription callback ran for text.
translation_callback(q, text, is_finalized, has_translator) ==
  IF CoordinatorAccepts(text, is_finalized) /\ has_translator
    THEN put_if_text(q, text)
    ELSE q

----------------------------------------------------------------------------
(* State                                                                   *)

VARIABLES
  language_code,        \* AudioCaptureManager.language_code
  mainPc,               \* where the main thread is in main/start/stop
  stopCaller,           \* who called the stop() in progress
  startResult,          \* what start() returned: "none", "ok", "failed"
  initFailedAt,         \* the capability whose construction raised (0: none)
  stopReturns,          \* how many calls of stop() have returned
  audio_capture,        \* LiveTranslator.audio_capture is not None
  translator,           \* LiveTranslator.translator is not None
  tts,                  \* LiveTranslator.tts is not None
  audio_output,         \* LiveTranslator.audio_output is not None
  is_running,           \* LiveTranslator.is_running
  is_tts_playing,       \* LiveTranslator.is_tts_playing
  mic_paused,           \* LiveTranslator.mic_paused
  client,               \* the streaming session: "none", "live", "closed"
  is_streaming,         \* AudioCaptureManager.is_streaming
  is_paused,            \* AudioCaptureManager.is_paused
  last_processed_text,  \* AudioCaptureManager.last_processed_text
  transcription_queue,  \* AudioCaptureManager.transcription_queue (never read)
  translation_queue,    \* TranslationManager.translation_queue
  tts_queue,            \* TTSManager.tts_queue
  audio_queue,          \* AudioOutputManager.audio_queue
  temp_dir,             \* TTSManager.temp_dir exists on disk
  files,                \* the audio files that exist in temp_dir
  nextFile,             \* the next audio file name (the time stamp)
  is_playing,           \* AudioOutputManager.is_playing
  stop_playback,        \* AudioOutputManager.stop_playback
  transPc, transItem,                \* translation worker
  ttsPc, ttsItem, audio_path,        \* TTS worker
  playPc, playItem,                  \* playback worker
  readyLog,             \* history: audios handed to _tts_callback, each
                        \*   with the phrase it was synthesized for
  takenLog,             \* history: audios taken from the playback queue
  returnedLog,          \* history: audios for which play_audio_file returned
  finishedLog           \* history: "Finished playing" events delivered

coordinator == << mainPc, stopCaller, startResult, initFailedAt, stopReturns,
                  audio_capture, translator, tts, audio_output, is_running >>
guard       == << is_tts_playing, mic_paused, is_paused >>
capture     == << language_code, client, is_streaming, last_processed_text,
                  transcription_queue >>
queues      == << translation_queue, tts_queue, audio_queue >>
disk        == << temp_dir, files, nextFile >>
transWorker == << transPc, transItem >>
ttsWorker   == << ttsPc, ttsItem, audio_path >>
playWorker  == << playPc, playItem, is_playing, stop_playback >>
history     == << readyLog, takenLog, returnedLog, finishedLog >>

vars == << coordinator, guard, capture, queues, disk, transWorker, ttsWorker,
           playWorker, history >>

NoText == <<>>
NoAudio == 0

\* The state after LiveTranslator() and before start(), for the language the
\* capture manager will be constructed with.
InitWith(lang) ==
  /\ language_code = lang
  /\ mainPc = "new"
  /\ stopCaller = "none"
  /\ startResult = "none"
  /\ initFailedAt = 0
  /\ stopReturns = 0
  /\ audio_capture = FALSE /\ translator = FALSE
  /\ tts = FALSE /\ audio_output = FALSE
  /\ is_running = FALSE
  /\ is_tts_playing = FALSE /\ mic_paused = FALSE
  /\ client = "none"
  /\ is_streaming = FALSE /\ is_paused = FALSE
  /\ last_processed_text = NoText
  /\ transcription_queue = <<>>
  /\ translation_queue = <<>> /\ tts_queue = <<>> /\ audio_queue = <<>>
  /\ temp_dir = FALSE /\ files = {} /\ nextFile = 1
  /\ is_playing = FALSE /\ stop_playback = FALSE
  /\ transPc = "none" /\ transItem = NoText
  /\ ttsPc = "none" /\ ttsItem = NoText /\ audio_path = NoAudio
  /\ playPc = "none" /\ playItem = NoAudio
  /\ readyLog = <<>> /\ takenLog = <<>> /\ returnedLog = <<>>
  /\ finishedLog = <<>>

\* initialize() constructs the capture manager with the default language.
Init == InitWith("en")

\* Either language configuration of the capture manager.
InitAnyLanguage == \E lang \in Languages : InitWith(lang)

Range(s) == {s[i] : i \in DOMAIN s}

\* The process runs until main returns.
Alive == mainPc # "exit"

----------------------------------------------------------------------------
(* Main thread: LiveTranslator.initialize and start                        *)

\* The capabilities in the order initialize() constructs them.
Capabilities == 1..4    \* 1 capture, 2 translation, 3 TTS, 4 audio output

InitializeOk_Mutant(failAt) == TRUE

\* initialize() returns True unless a constructor raised.
InitializeOk(failAt) == failAt = 0

\* initialize(): the constructors run in order; the one numbered failAt raises
\* and the except clause returns False.  TTSManager.__init__ makes its
\* temporary directory before it loads the model.
initialize ==
  /\ mainPc = "new"
  /\ \E failAt \in {0} \cup Capabilities :
       /\ initFailedAt' = failAt
       /\ audio_capture' = (failAt = 0 \/ failAt > 1)
       /\ translator' = (failAt = 0 \/ failAt > 2)
       /\ tts' = (failAt = 0 \/ failAt > 3)
       /\ audio_output' = (failAt = 0)
       /\ temp_dir' = (failAt = 0 \/ failAt >= 3)
  /\ mainPc' = "initialized"
  /\ UNCHANGED << stopCaller, startResult, stopReturns, is_running >>
  /\ UNCHANGED << guard, capture, queues, files, nextFile, transWorker,
                  ttsWorker, playWorker, history >>

\* start(): initialize() returned False; start returns False, main calls
\* sys.exit(1) and its finally clause calls stop().
start_failed ==
  /\ mainPc = "initialized"
  /\ ~InitializeOk(initFailedAt)
  /\ startResult' = "failed"
  /\ mainPc' = "stop_running"
  /\ stopCaller' = "main"
  /\ UNCHANGED << initFailedAt, stopReturns, audio_capture, translator, tts,
                  audio_output, is_running >>
  /\ UNCHANGED << guard, capture, queues, disk, transWorker, ttsWorker,
                  playWorker, history >>

\* start(): is_running = True, the two worker threads are started, and
\* start_playback_thread clears stop_playback and starts the playback worker.
start_threads ==
  /\ mainPc = "initialized"
  /\ InitializeOk(initFailedAt)
  /\ is_running' = TRUE
  /\ transPc' = "head"
  /\ ttsPc' = "head"
  /\ IF audio_output
       THEN stop_playback' = FALSE /\ playPc' = "head"
       ELSE UNCHANGED << stop_playback, playPc >>
  /\ mainPc' = "threads"
  /\ UNCHANGED << stopCaller, startResult, initFailedAt, stopReturns,
                  audio_capture, translator, tts, audio_output >>
  /\ UNCHANGED << guard, capture, queues, disk, transItem,
                  ttsItem, audio_path, playItem, is_playing, history >>

\* start_streaming() up to client.connect(): the client is created and
\* connects, which starts the session's delivery thread.  When connect
\* raises, is_streaming is cleared and the exception reaches start(), which
\* calls stop().
start_streaming ==
  /\ mainPc = "threads"
  /\ \E connected \in BOOLEAN :
       IF connected
         THEN /\ client' = "live"
              /\ mainPc' = "connected"
              /\ UNCHANGED << is_streaming, stopCaller >>
         ELSE /\ client' = "closed"
              /\ is_streaming' = FALSE
              /\ mainPc' = "stop_running"
              /\ stopCaller' = "start"
  /\ UNCHANGED << startResult, initFailedAt, stopReturns, audio_capture,
                  translator, tts, audio_output, is_running >>
  /\ UNCHANGED << guard, language_code, last_processed_text,
                  transcription_queue, queues, disk, transWorker, ttsWorker,
                  playWorker, history >>

\* start_streaming() after connect returned: self.is_streaming = True, then
\* the call blocks in client.stream(), which sends the microphone's audio.
client_stream ==
  /\ mainPc = "connected"
  /\ is_streaming' = TRUE
  /\ mainPc' = "streaming"
  /\ UNCHANGED << stopCaller, startResult, initFailedAt, stopReturns,
                  audio_capture, translator, tts, audio_output, is_running >>
  /\ UNCHANGED << guard, language_code, client, last_processed_text,
                  transcription_queue, queues, disk, transWorker, ttsWorker,
                  playWorker, history >>

\* The session has ended: client.stream() returns, start() returns True and
\* main's finally clause calls stop().
stream_returns ==
  /\ mainPc = "streaming"
  /\ client = "closed"
  /\ startResult' = "ok"
  /\ mainPc' = "stop_running"
  /\ stopCaller' = "main"
  /\ UNCHANGED << initFailedAt, stopReturns, audio_capture, translator, tts,
                  audio_output, is_running >>
  /\ UNCHANGED << guard, capture, queues, disk, transWorker, ttsWorker,
                  playWorker, history >>

\* SIGINT or SIGTERM while start() blocks: _signal_handler calls stop().
signal_handler ==
  /\ mainPc = "streaming"
  /\ mainPc' = "stop_running"
  /\ stopCaller' = "signal"
  /\ UNCHANGED << startResult, initFailedAt, stopReturns, audio_capture,
                  translator, tts, audio_output, is_running >>
  /\ UNCHANGED << guard, capture, queues, disk, transWorker, ttsWorker,
                  playWorker, history >>

----------------------------------------------------------------------------
(* Main thread: LiveTranslator.stop                                        *)

StopPcs == { "stop_running", "stop_capture", "stop_playback", "join_playback",
             "join_translation", "join_tts", "cleanup_unlink",
             "cleanup_rmdir", "stop_return" }

ThreadAlive(pc) == pc \notin {"none", "exited"}

JoinReturns_Mutant(alive) == ~alive

\* thread.join(timeout=2.0) returns when the thread has exited, and after the
\* timeout when it has not.
JoinReturns(alive) == TRUE

MainUnchanged == UNCHANGED << stopCaller, startResult, initFailedAt,
                              stopReturns, audio_capture, translator, tts,
                              audio_output >>

\* self.is_running = False
stop_running ==
  /\ mainPc = "stop_running"
  /\ is_running' = FALSE
  /\ mainPc' = "stop_capture"
  /\ MainUnchanged
  /\ UNCHANGED << guard, capture, queues, disk, transWorker, ttsWorker,
                  playWorker, history >>

\* if self.audio_capture: stop_streaming(): disconnect the client if there is
\* one, is_streaming = False.
stop_streaming ==
  /\ mainPc = "stop_capture"
  /\ IF audio_capture
       THEN /\ client' = IF client = "live" THEN "closed" ELSE client
            /\ is_streaming' = FALSE
       ELSE UNCHANGED << client, is_streaming >>
  /\ mainPc' = "stop_playback"
  /\ MainUnchanged
  /\ UNCHANGED << is_running, guard, language_code, last_processed_text,
                  transcription_queue, queues, disk, transWorker, ttsWorker,
                  playWorker, history >>

\* if self.audio_output: stop_playback_thread(): stop_playback = True
stop_playback_thread ==
  /\ mainPc = "stop_playback"
  /\ IF audio_output
       THEN stop_playback' = TRUE /\ mainPc' = "join_playback"
       ELSE UNCHANGED stop_playback /\ mainPc' = "join_translation"
  /\ MainUnchanged
  /\ UNCHANGED << is_running, guard, capture, queues, disk, transWorker,
                  ttsWorker, playPc, playItem, is_playing, history >>

\* stop_playback_thread(): playback_thread.join(timeout=2.0) if it is alive
join_playback ==
  /\ mainPc = "join_playback"
  /\ JoinReturns(ThreadAlive(playPc))
  /\ mainPc' = "join_translation"
  /\ MainUnchanged
  /\ UNCHANGED << is_running, guard, capture, queues, disk, transWorker,
                  ttsWorker, playWorker, history >>

\* translation_thread.join(timeout=2.0) if it is alive
join_translation ==
  /\ mainPc = "join_translation"
  /\ JoinReturns(ThreadAlive(transPc))
  /\ mainPc' = "join_tts"
  /\ MainUnchanged
  /\ UNCHANGED << is_running, guard, capture, queues, disk, transWorker,
                  ttsWorker, playWorker, history >>

\* tts_thread.join(timeout=2.0) if it is alive
join_tts ==
  /\ mainPc = "join_tts"
  /\ JoinReturns(ThreadAlive(ttsPc))
  /\ mainPc' = "cleanup_unlink"
  /\ MainUnchanged
  /\ UNCHANGED << is_running, guard, capture, queues, disk, transWorker,
                  ttsWorker, playWorker, history >>

\* if self.tts: cleanup_temp_files(): shutil.rmtree(temp_dir) when the
\* directory exists.  rmtree first lists the directory and unlinks the
\* entries it listed ...
cleanup_unlink ==
  /\ mainPc = "cleanup_unlink"
  /\ IF tts /\ temp_dir
       THEN files' = {} /\ mainPc' = "cleanup_rmdir"
       ELSE UNCHANGED files /\ mainPc' = "stop_return"
  /\ MainUnchanged
  /\ UNCHANGED << is_running, guard, capture, queues, temp_dir, nextFile,
                  transWorker, ttsWorker, playWorker, history >>

\* ... and then removes the directory, which raises when a file was written
\* to it in between; cleanup_temp_files logs the exception.
cleanup_rmdir ==
  /\ mainPc = "cleanup_rmdir"
  /\ temp_dir' = (files # {})
  /\ mainPc' = "stop_return"
  /\ MainUnchanged
  /\ UNCHANGED << is_running, guard, capture, queues, files, nextFile,
                  transWorker, ttsWorker, playWorker, history >>

\* stop() returns.  Called by start() (start_streaming raised): start returns
\* False, main calls sys.exit(1).  Called by the signal handler: sys.exit(0).
\* Either way SystemExit runs main's finally clause, which calls stop() again.
\* Called by main's finally clause: main returns and the process exits.
stop_return ==
  /\ mainPc = "stop_return"
  /\ stopReturns' = stopReturns + 1
  /\ IF stopCaller = "main"
       THEN mainPc' = "exit" /\ UNCHANGED stopCaller
       ELSE mainPc' = "stop_running" /\ stopCaller' = "main"
  /\ startResult' = IF stopCaller = "start" THEN "failed" ELSE startResult
  /\ UNCHANGED << initFailedAt, audio_capture, translator, tts, audio_output,
                  is_running >>
  /\ UNCHANGED << guard, capture, queues, disk, transWorker, ttsWorker,
                  playWorker, history >>

stop ==
  \/ stop_running
  \/ stop_streaming
  \/ stop_playback_thread
  \/ join_playback
  \/ join_translation
  \/ join_tts
  \/ cleanup_unlink
  \/ cleanup_rmdir
  \/ stop_return

----------------------------------------------------------------------------
(* Capture session's delivery thread                                       *)

\* _on_turn(event): nothing when paused; a turn the filter accepts becomes
\* last_processed_text, is put on transcription_queue and is handed to
\* _translation_callback, which queues it for translation.  Turns come from
\* the audio client.stream() sends, so none is delivered before that call.
on_turn_upto(limit) ==
  /\ Alive
  /\ client = "live"
  /\ mainPc # "connected"
  /\ Len(transcription_queue) < limit
  /\ \E ev \in TurnEvents :
       LET transcript_text == strip(ev.transcript) IN
         IF TurnAccepted(ev, is_paused, last_processed_text, language_code)
           THEN /\ ~Full(translation_queue)
                /\ last_processed_text' = transcript_text
                /\ transcription_queue' =
                     Append(transcription_queue, transcript_text)
                /\ translation_queue' =
                     translation_callback(translation_queue, transcript_text,
                                          TRUE, translator)
           ELSE UNCHANGED << last_processed_text, transcription_queue,
                             translation_queue >>
  /\ UNCHANGED << coordinator, guard, language_code, client, is_streaming,
                  tts_queue, audio_queue, disk, transWorker, ttsWorker,
                  playWorker, history >>

on_turn == on_turn_upto(MaxTurns)

\* _on_terminated(event): the session is over.
on_terminated ==
  /\ Alive
  /\ client = "live"
  /\ client' = "closed"
  /\ is_streaming' = FALSE
  /\ UNCHANGED << coordinator, guard, language_code, last_processed_text,
                  transcription_queue, queues, disk, transWorker, ttsWorker,
                  playWorker, history >>

\* _on_error(error): a terminal streaming error.
on_error ==
  /\ Alive
  /\ client = "live"
  /\ client' = "closed"
  /\ is_streaming' = FALSE
  /\ UNCHANGED << coordinator, guard, language_code, last_processed_text,
                  transcription_queue, queues, disk, transWorker, ttsWorker,
                  playWorker, history >>

\* pause_streaming(): the new is_paused
pause_streaming(streaming, paused) ==
  IF streaming /\ ~paused THEN TRUE ELSE paused

resume_streaming_Mutant(streaming, paused) ==
  IF streaming THEN ~paused ELSE paused

\* resume_streaming(): the new is_paused
resume_streaming(streaming, paused) ==
  IF streaming /\ paused THEN FALSE ELSE paused

----------------------------------------------------------------------------
(* Translation worker: _translation_worker, process_translation_queue      *)

\* argostranslate.translate.translate: some text other than its input.
Translate(text) == << "e", "s", ":" >> \o text

\* The phrase a text on the TTS queue stands for: the text itself, or what
\* Translate made it from.
Source(text) ==
  IF Len(text) > 3 /\ SubSeq(text, 1, 3) = << "e", "s", ":" >>
    THEN SubSeq(text, 4, Len(text))
    ELSE text

translate_text_Mutant(text, raised) == IF raised THEN NoText ELSE Translate(text)

\* translate_text(text): the translation, or the text itself when the
\* translate call raises.
translate_text(text, raised) == IF raised THEN text ELSE Translate(text)

\* _translation_to_tts_callback(translated_text): queue_tts when there is a
\* TTS manager.
translation_to_tts_callback(q, translated_text, has_tts) ==
  IF has_tts THEN put_if_text(q, translated_text) ELSE q

\* while self.is_running:
translation_head ==
  /\ Alive
  /\ transPc = "head"
  /\ transPc' = IF is_running THEN "get" ELSE "exited"
  /\ UNCHANGED << coordinator, guard, capture, queues, disk, transItem,
                  ttsWorker, playWorker, history >>

\* translation_queue.get(timeout=1.0) returns an item
translation_get ==
  /\ Alive
  /\ transPc = "get"
  /\ translation_queue # <<>>
  /\ transItem' = Head(translation_queue)
  /\ translation_queue' = Tail(translation_queue)
  /\ transPc' = "call"
  /\ UNCHANGED << coordinator, guard, capture, tts_queue, audio_queue, disk,
                  ttsWorker, playWorker, history >>

\* translation_queue.get(timeout=1.0) raises queue.Empty; sleep; loop
translation_empty ==
  /\ Alive
  /\ transPc = "get"
  /\ translation_queue = <<>>
  /\ transPc' = "head"
  /\ UNCHANGED << coordinator, guard, capture, queues, disk, transItem,
                  ttsWorker, playWorker, history >>

\* The translate call returns or raises (raised); translate_text returns and
\* process_translation_queue hands its result to the callback, which queues
\* it for TTS.
translation_step(raised) ==
  /\ Alive
  /\ transPc = "call"
  /\ ~Full(tts_queue)
  /\ tts_queue' = translation_to_tts_callback(
                    tts_queue, translate_text(transItem, raised), tts)
  /\ transPc' = "head"
  /\ UNCHANGED << coordinator, guard, capture, translation_queue, audio_queue,
                  disk, transItem, ttsWorker, playWorker, history >>

translation_done == translation_step(FALSE)

translation_raises == translation_step(TRUE)

----------------------------------------------------------------------------
(* TTS worker: _tts_worker, process_tts_queue, _tts_callback               *)

\* while self.is_running:
tts_head ==
  /\ Alive
  /\ ttsPc = "head"
  /\ ttsPc' = IF is_running THEN "get" ELSE "exited"
  /\ UNCHANGED << coordinator, guard, capture, queues, disk, transWorker,
                  ttsItem, audio_path, playWorker, history >>

\* tts_queue.get(timeout=1.0) returns an item
tts_get ==
  /\ Alive
  /\ ttsPc = "get"
  /\ tts_queue # <<>>
  /\ ttsItem' = Head(tts_queue)
  /\ tts_queue' = Tail(tts_queue)
  /\ ttsPc' = "synth"
  /\ UNCHANGED << coordinator, guard, capture, translation_queue, audio_queue,
                  disk, transWorker, audio_path, playWorker, history >>

\* tts_queue.get(timeout=1.0) raises queue.Empty; sleep; loop
tts_empty ==
  /\ Alive
  /\ ttsPc = "get"
  /\ tts_queue = <<>>
  /\ ttsPc' = "head"
  /\ UNCHANGED << coordinator, guard, capture, queues, disk, transWorker,
                  ttsItem, audio_path, playWorker, history >>

tts_callback_fires_Mutant(path) == TRUE

\* process_tts_queue: if audio_path and self.tts_callback: the callback runs
\* only for an audio path that is not None.
tts_callback_fires(path) == path # NoAudio

\* text_to_speech(text) returns: tts_to_file wrote the file into temp_dir, or
\* it raised (always when temp_dir is gone) and None is returned after the
\* error is logged, which drops the item.
text_to_speech ==
  /\ Alive
  /\ ttsPc = "synth"
  /\ \E synthesized \in BOOLEAN :
       IF synthesized /\ temp_dir /\ strip(ttsItem) # <<>>
         THEN /\ files' = files \cup {nextFile}
              /\ audio_path' = nextFile
              /\ nextFile' = nextFile + 1
         ELSE /\ audio_path' = NoAudio
              /\ UNCHANGED << files, nextFile >>
  /\ ttsPc' = IF tts_callback_fires(audio_path') THEN "cb_mute" ELSE "head"
  /\ UNCHANGED << coordinator, guard, capture, queues, temp_dir, transWorker,
                  ttsItem, playWorker, history >>

\* _tts_callback logs one info record and, when it pauses, a second one; it
\* has no test of is_tts_playing and logs no warning.
ordering_warning_logged == FALSE

\* _tts_callback: self.is_tts_playing = True
tts_callback_mute ==
  /\ Alive
  /\ ttsPc = "cb_mute"
  /\ is_tts_playing' = TRUE
  /\ readyLog' = Append(readyLog,
                        [audio |-> audio_path, phrase |-> Source(ttsItem)])
  /\ ttsPc' = "cb_pause"
  /\ UNCHANGED << coordinator, mic_paused, is_paused, capture, queues, disk,
                  transWorker, ttsItem, audio_path, playWorker, takenLog,
                  returnedLog, finishedLog >>

\* _tts_callback: if self.audio_capture and not self.mic_paused:
\*                    self.audio_capture.pause_streaming()
tts_callback_pause ==
  /\ Alive
  /\ ttsPc = "cb_pause"
  /\ IF audio_capture /\ ~mic_paused
       THEN /\ is_paused' = pause_streaming(is_streaming, is_paused)
            /\ ttsPc' = "cb_paused"
       ELSE /\ UNCHANGED is_paused
            /\ ttsPc' = "cb_queue"
  /\ UNCHANGED << coordinator, is_tts_playing, mic_paused, capture, queues,
                  disk, transWorker, ttsItem, audio_path, playWorker,
                  history >>

\* _tts_callback: self.mic_paused = True
tts_callback_paused ==
  /\ Alive
  /\ ttsPc = "cb_paused"
  /\ mic_paused' = TRUE
  /\ ttsPc' = "cb_queue"
  /\ UNCHANGED << coordinator, is_tts_playing, is_paused, capture, queues,
                  disk, transWorker, ttsItem, audio_path, playWorker,
                  history >>

queue_audio_Mutant(q, path, exists) ==
  IF path # NoAudio /\ exists THEN Append(Append(q, path), path) ELSE q

\* queue_audio(audio_path): put when the file exists
queue_audio(q, path, exists) == IF path # NoAudio /\ exists THEN Append(q, path) ELSE q

\* _tts_callback: if self.audio_output: self.audio_output.queue_audio(path)
tts_callback_queue ==
  /\ Alive
  /\ ttsPc = "cb_queue"
  /\ ~Full(audio_queue)
  /\ audio_queue' = IF audio_output
                      THEN queue_audio(audio_queue, audio_path,
                                       audio_path \in files)
                      ELSE audio_queue
  /\ ttsPc' = "head"
  /\ UNCHANGED << coordinator, guard, capture, translation_queue, tts_queue,
                  disk, transWorker, ttsItem, audio_path, playWorker,
                  history >>

----------------------------------------------------------------------------
(* Playback worker: _playback_worker, play_audio_file, _audio_callback     *)

\* "finished playing" in message.lower(), for the two messages
\* play_audio_file sends
IsFinishedMessage(message) == message = "Finished playing"

audio_callback_unmutes_Mutant(message, playing) == IsFinishedMessage(message)

\* _audio_callback: if "finished playing" in message.lower()
\*                     and self.is_tts_playing:
audio_callback_unmutes(message, playing) ==
  IsFinishedMessage(message) /\ playing

\* while not self.stop_playback:
playback_head ==
  /\ Alive
  /\ playPc = "head"
  /\ playPc' = IF ~stop_playback THEN "get" ELSE "exited"
  /\ UNCHANGED << coordinator, guard, capture, queues, disk, transWorker,
                  ttsWorker, playItem, is_playing, stop_playback, history >>

\* audio_queue.get(timeout=1.0) returns an audio
playback_get ==
  /\ Alive
  /\ playPc = "get"
  /\ audio_queue # <<>>
  /\ playItem' = Head(audio_queue)
  /\ audio_queue' = Tail(audio_queue)
  /\ takenLog' = Append(takenLog, Head(audio_queue))
  /\ playPc' = "play"
  /\ UNCHANGED << coordinator, guard, capture, translation_queue, tts_queue,
                  disk, transWorker, ttsWorker, is_playing, stop_playback,
                  readyLog, returnedLog, finishedLog >>

\* audio_queue.get(timeout=1.0) raises queue.Empty; continue
playback_empty ==
  /\ Alive
  /\ playPc = "get"
  /\ audio_queue = <<>>
  /\ playPc' = "head"
  /\ UNCHANGED << coordinator, guard, capture, queues, disk, transWorker,
                  ttsWorker, playItem, is_playing, stop_playback, history >>

PlayFailed_Mutant ==
  /\ is_playing' = FALSE
  /\ returnedLog' = Append(returnedLog, playItem)
  /\ playPc' = "exited"

\* play_audio_file returns False: no callback is made on this path
PlayFailed ==
  /\ is_playing' = FALSE
  /\ returnedLog' = Append(returnedLog, playItem)
  /\ playPc' = "remove"

\* play_audio_file returns True
PlayReturned ==
  /\ returnedLog' = Append(returnedLog, playItem)
  /\ playPc' = "remove"

\* play_audio_file up to sd.play: returns False when the file is missing or
\* loading it raises; otherwise is_playing = True and the "Started playing"
\* message goes to _audio_callback, which ignores it.
play_start ==
  /\ Alive
  /\ playPc = "play"
  /\ \E loaded \in BOOLEAN :
       IF playItem \in files /\ loaded
         THEN /\ is_playing' = TRUE
              /\ ~audio_callback_unmutes("Started playing", is_tts_playing)
              /\ playPc' = "playing"
              /\ UNCHANGED returnedLog
         ELSE PlayFailed
  /\ UNCHANGED << coordinator, guard, capture, queues, disk, transWorker,
                  ttsWorker, playItem, stop_playback, readyLog, takenLog,
                  finishedLog >>

\* sd.play / sd.wait end.  When they raise, play_audio_file returns False.
\* Otherwise is_playing = False and "Finished playing" goes to
\* _audio_callback: if self.is_tts_playing: self.is_tts_playing = False
play_end ==
  /\ Alive
  /\ playPc = "playing"
  /\ \E played \in BOOLEAN :
       IF played
         THEN /\ is_playing' = FALSE
              /\ finishedLog' = Append(finishedLog, playItem)
              /\ IF audio_callback_unmutes("Finished playing", is_tts_playing)
                   THEN /\ is_tts_playing' = FALSE
                        /\ playPc' = "cb_resume"
                        /\ UNCHANGED returnedLog
                   ELSE /\ UNCHANGED is_tts_playing
                        /\ PlayReturned
         ELSE /\ PlayFailed
              /\ UNCHANGED << is_tts_playing, finishedLog >>
  /\ UNCHANGED << coordinator, mic_paused, is_paused, capture, queues, disk,
                  transWorker, ttsWorker, playItem, stop_playback, readyLog,
                  takenLog >>

\* _audio_callback: if self.audio_capture and self.mic_paused:
\*                      self.audio_capture.resume_streaming()
audio_callback_resume ==
  /\ Alive
  /\ playPc = "cb_resume"
  /\ IF audio_capture /\ mic_paused
       THEN /\ is_paused' = resume_streaming(is_streaming, is_paused)
            /\ playPc' = "cb_resumed"
            /\ UNCHANGED returnedLog
       ELSE /\ UNCHANGED is_paused
            /\ PlayReturned
  /\ UNCHANGED << coordinator, is_tts_playing, mic_paused, capture, queues,
                  disk, transWorker, ttsWorker, playItem, is_playing,
                  stop_playback, readyLog, takenLog, finishedLog >>

\* _audio_callback: self.mic_paused = False; play_audio_file returns True
audio_callback_resumed ==
  /\ Alive
  /\ playPc = "cb_resumed"
  /\ mic_paused' = FALSE
  /\ PlayReturned
  /\ UNCHANGED << coordinator, is_tts_playing, is_paused, capture, queues,
                  disk, transWorker, ttsWorker, playItem, is_playing,
                  stop_playback, readyLog, takenLog, finishedLog >>

playback_remove_Mutant ==
  /\ Alive
  /\ playPc = "remove"
  /\ files' = IF playItem \notin Range(finishedLog) THEN files ELSE files \ {playItem}
  /\ playPc' = "head"
  /\ UNCHANGED << coordinator, guard, capture, queues, temp_dir, nextFile,
                  transWorker, ttsWorker, playItem, is_playing, stop_playback,
                  history >>

\* os.remove(audio_path); a failure to remove is logged
playback_remove ==
  /\ Alive
  /\ playPc = "remove"
  /\ files' = files \ {playItem}
  /\ playPc' = "head"
  /\ UNCHANGED << coordinator, guard, capture, queues, temp_dir, nextFile,
                  transWorker, ttsWorker, playItem, is_playing, stop_playback,
                  history >>

----------------------------------------------------------------------------
(* Specifications                                                          *)

Next ==
  \/ initialize
  \/ start_failed
  \/ start_threads
  \/ start_streaming
  \/ client_stream
  \/ stream_returns
  \/ signal_handler
  \/ stop
  \/ on_turn
  \/ on_terminated
  \/ on_error
  \/ translation_head
  \/ translation_get
  \/ translation_empty
  \/ translation_done
  \/ translation_raises
  \/ tts_head
  \/ tts_get
  \/ tts_empty
  \/ text_to_speech
  \/ tts_callback_mute
  \/ tts_callback_pause
  \/ tts_callback_paused
  \/ tts_callback_queue
  \/ playback_head
  \/ playback_get
  \/ playback_empty
  \/ play_start
  \/ play_end
  \/ audio_callback_resume
  \/ audio_callback_resumed
  \/ playback_remove

Spec == Init /\ [][Next]_vars

\* The same program with the capture manager configured for either language.
LanguageSpec == InitAnyLanguage /\ [][Next]_vars

\* The main thread keeps running: a call of stop() that can take its next
\* step takes it.  Nothing is assumed of the workers or of the capabilities
\* they call.
StopSpec == Init /\ [][Next]_vars /\ WF_vars(stop)

----------------------------------------------------------------------------
(* A run in which nothing fails: every capability is constructed, the       *)
(* session connects and stays up, nobody stops the pipeline, and every      *)
(* translate, synthesize and play call succeeds.                            *)

\* initialize() returns True
initialized == initialize /\ initFailedAt' = 0

\* client.connect() returns
connected == start_streaming /\ client' = "live"

\* text_to_speech returns the path of the file it wrote
synthesized == text_to_speech /\ audio_path' # NoAudio

\* play_audio_file loads the file and starts to play it
play_started == play_start /\ playPc' = "playing"

\* sd.wait() returns and "Finished playing" is delivered
play_finished == play_end /\ Len(finishedLog') > Len(finishedLog)

MainThread == initialized \/ start_threads \/ connected \/ client_stream

TranslationThread ==
  translation_head \/ translation_get \/ translation_empty \/ translation_done

TtsThread ==
  \/ tts_head \/ tts_get \/ tts_empty \/ synthesized
  \/ tts_callback_mute \/ tts_callback_pause \/ tts_callback_paused
  \/ tts_callback_queue

PlaybackThread ==
  \/ playback_head \/ playback_get \/ playback_empty
  \/ play_started \/ play_finished
  \/ audio_callback_resume \/ audio_callback_resumed \/ playback_remove

RunNext ==
  \/ initialized
  \/ start_threads
  \/ connected
  \/ client_stream
  \/ on_turn
  \/ translation_head
  \/ translation_get
  \/ translation_empty
  \/ translation_done
  \/ tts_head
  \/ tts_get
  \/ tts_empty
  \/ synthesized
  \/ tts_callback_mute
  \/ tts_callback_pause
  \/ tts_callback_paused
  \/ tts_callback_queue
  \/ playback_head
  \/ playback_get
  \/ playback_empty
  \/ play_started
  \/ play_finished
  \/ audio_callback_resume
  \/ audio_callback_resumed
  \/ playback_remove

\* Every thread that can take a step eventually takes one.
RunSpec ==
  /\ Init
  /\ [][RunNext]_vars
  /\ WF_vars(MainThread)
  /\ WF_vars(TranslationThread)
  /\ WF_vars(TtsThread)
  /\ WF_vars(PlaybackThread)

----------------------------------------------------------------------------
(* The capture filter over a longer run of turns: the pipeline is started,  *)
(* turns arrive and are translated, and the TTS and playback workers have   *)
(* not been scheduled yet.                                                  *)

\* Accepted phrases per run of the filter.
MaxPhrases == 3

on_turn_filter == on_turn_upto(MaxPhrases)

FilterNext ==
  \/ initialized
  \/ start_threads
  \/ connected
  \/ client_stream
  \/ on_turn_filter
  \/ translation_head
  \/ translation_get
  \/ translation_empty
  \/ translation_done
  \/ translation_raises

FilterSpec == Init /\ [][FilterNext]_vars

----------------------------------------------------------------------------
(* Properties                                                              *)

Count(log, a) == Cardinality({i \in DOMAIN log : log[i] = a})

\* C1: guard liveness.  Every audio for which play_audio_file has returned,
\* successfully or not, has had exactly one "Finished playing" event
\* delivered to _audio_callback (the event that sets is_tts_playing back to
\* False and resumes capture).
C1_GuardLiveness ==
  \A a \in Range(returnedLog) : Count(finishedLog, a) = 1

\* C2: feedback prevention.  Whenever the playback worker is between the
\* start and the finish notification of an audio, is_tts_playing is True and
\* the capture adapter is paused, whatever waits in the playback queue.
C2_FeedbackPrevention ==
  playPc = "playing" => (is_tts_playing /\ is_paused)

\* C3: mute suppression.  A step taken while is_tts_playing is True emits no
\* phrase: nothing is added to transcription_queue (the transcription
\* callback is not called) and nothing is put on the translation queue.
C3_MuteSuppression ==
  [][is_tts_playing =>
       /\ transcription_queue' = transcription_queue
       /\ Len(translation_queue') <= Len(translation_queue)]_vars

\* C4: filter dedup.  No two consecutive emitted phrases are equal after
\* trimming and ignoring letter case.
C4_FilterDedup ==
  \A i \in 1..(Len(transcription_queue) - 1) :
    lower(strip(transcription_queue[i])) #
      lower(strip(transcription_queue[i + 1]))

\* C5: every phrase on the translation queue is longer, trimmed, than the
\* minimum of 3 characters and, trimmed and lower-cased, is no filler word
\* of the capture language.
C5_QueuedPhrasesMeaningful ==
  \A i \in DOMAIN translation_queue :
    LET t == strip(translation_queue[i]) IN
      /\ Len(t) > 3
      /\ lower(t) \notin filler_words(language_code)

\* A phrase is on the translation queue under the Spanish configuration.
C5_Witness ==
  /\ translation_queue # <<>>
  /\ language_code = "es"

\* C6: pass-through.  The step in which the translate call raises for the
\* item taken from the translation queue appends that item's text,
\* unchanged, to the TTS queue.
C6_PassThrough ==
  [][translation_raises => tts_queue' = Append(tts_queue, transItem)]_vars

\* An emitted phrase is on the TTS queue untranslated.
C6_Witness ==
  \E i \in DOMAIN tts_queue : tts_queue[i] \in Range(transcription_queue)

\* C7: when the playback worker is back at the head of its loop (or has left
\* it), the file of every audio it took from the queue is gone.
C7_TempFileDeleted ==
  playPc \in {"head", "get", "exited"} =>
    \A a \in Range(takenLog) : a \notin files

\* The worker is back at its loop after a playback that failed, with the
\* pipeline running and the temporary directory in place.
C7_Witness ==
  /\ playPc = "head"
  /\ mainPc = "streaming"
  /\ temp_dir
  /\ \E a \in Range(returnedLog) : a \notin Range(finishedLog)

\* C8: fail-fast start.  When a capability's construction raised, start()
\* returns failure, is_running stays False, no worker thread and no capture
\* session is started, and every queue stays empty.
C8_FailFastStart ==
  initFailedAt # 0 =>
    /\ mainPc # "initialized" => startResult = "failed"
    /\ ~is_running
    /\ transPc = "none" /\ ttsPc = "none" /\ playPc = "none"
    /\ client = "none" /\ ~is_streaming
    /\ transcription_queue = <<>>
    /\ translation_queue = <<>> /\ tts_queue = <<>> /\ audio_queue = <<>>

\* start() has returned failure because the TTS model did not load.
C8_Witness ==
  /\ initFailedAt = 3
  /\ startResult = "failed"

\* C9: every call of stop() returns, whatever the workers and the
\* capability calls in flight do.
C9_StopCompletes ==
  /\ (mainPc = "stop_running" /\ stopReturns = 0) ~> (stopReturns >= 1)
  /\ (mainPc = "stop_running" /\ stopReturns = 1) ~> (stopReturns >= 2)

\* stop() has returned while a synthesize call and a play call are still in
\* flight.
C9_Witness ==
  /\ stopReturns >= 1
  /\ ttsPc = "synth"
  /\ playPc = "playing"

\* C10: once stop() has returned, no audio file exists.
C10_NoTempFilesAfterStop ==
  stopReturns >= 1 => files = {}

\* C11: no per-item failure ends a worker loop.  A worker thread exits only
\* in a step that found its stop signal set (is_running False, stop_playback
\* True); the step in which a translate call raises, a synthesis yields no
\* audio or a playback fails leaves its worker inside the loop.
C11_WorkersSurviveFailures ==
  [][/\ (transPc # "exited" /\ transPc' = "exited") => ~is_running
     /\ (ttsPc # "exited" /\ ttsPc' = "exited") => ~is_running
     /\ (playPc # "exited" /\ playPc' = "exited") => stop_playback
     /\ translation_raises => transPc' = "head"
     /\ (text_to_speech /\ audio_path' = NoAudio) => ttsPc' = "head"
     /\ (Len(returnedLog') > Len(returnedLog) /\ finishedLog' = finishedLog)
          => playPc' = "remove"]_vars

\* The playback worker has taken a second audio after the playback of the
\* first one failed, and the pipeline is still running.
C11_Witness ==
  /\ Len(takenLog) = 2
  /\ takenLog[1] \in Range(returnedLog)
  /\ takenLog[1] \notin Range(finishedLog)
  /\ is_running /\ ~stop_playback

\* C16: a synthesis that yields no audio drops the item: the TTS worker goes
\* back to its loop without running _tts_callback, so nothing is put on the
\* playback queue and is_tts_playing, mic_paused and is_paused keep their
\* values.
C16_SynthesisFailureDrops ==
  [][(text_to_speech /\ audio_path' = NoAudio) =>
       /\ ttsPc' = "head"
       /\ audio_queue' = audio_queue
       /\ readyLog' = readyLog
       /\ UNCHANGED guard]_vars

\* A synthesis has failed while the guard was Listening, and the worker is
\* back in its loop with nothing queued for playback.
C16_Witness ==
  /\ ttsPc = "head"
  /\ ttsItem # NoText /\ audio_path = NoAudio
  /\ readyLog = <<>> /\ audio_queue = <<>>
  /\ ~is_tts_playing /\ ~is_paused /\ is_streaming

\* C17: pause_streaming and resume_streaming are idempotent.  Whether the
\* manager is streaming or not, pausing a paused manager and resuming one
\* that is not paused change nothing, and a second call of either leaves
\* what the first call left.
C17_PauseResumeIdempotent ==
  /\ pause_streaming(is_streaming, TRUE) = TRUE
  /\ resume_streaming(is_streaming, FALSE) = FALSE
  /\ \A paused \in BOOLEAN :
       /\ pause_streaming(is_streaming, pause_streaming(is_streaming, paused))
            = pause_streaming(is_streaming, paused)
       /\ resume_streaming(is_streaming,
                           resume_streaming(is_streaming, paused))
            = resume_streaming(is_streaming, paused)

\* _audio_callback is about to call resume_streaming on a manager that is
\* not paused.
C17_Witness ==
  /\ playPc = "cb_resume"
  /\ audio_capture /\ mic_paused
  /\ ~is_paused

\* C18: streaming failure.  Once the session is over, is_streaming is False,
\* and a session that is over is never started again.
C18_StreamingFailure ==
  /\ [](client = "closed" => ~is_streaming)
  /\ [][client = "closed" => client' = "closed"]_vars

\* C12: no silent loss.  Every item handed to queue_translation, queue_tts
\* or queue_audio is put on that queue, or its drop is logged.
C12_NoSilentLoss ==
  [][/\ (transcription_queue' # transcription_queue /\ translator) =>
          \/ translation_queue' =
               Append(translation_queue, last_processed_text')
          \/ push_logs_drop
     /\ ((translation_done \/ translation_raises) /\ tts) =>
          \/ Len(tts_queue') = Len(tts_queue) + 1
          \/ push_logs_drop
     /\ (tts_callback_queue /\ audio_output) =>
          \/ audio_queue' = Append(audio_queue, audio_path)
          \/ push_logs_drop]_vars

\* C13: the three stage queues have a capacity and never hold more items
\* than it.
C13_QueuesBounded ==
  /\ HasCapacity
  /\ Len(translation_queue) <= maxsize
  /\ Len(tts_queue) <= maxsize
  /\ Len(audio_queue) <= maxsize

\* C19: the guard's transitions are atomic for the other threads.  No turn
\* is accepted while is_tts_playing is True, and when neither callback is in
\* the middle of its transition, is_tts_playing True means the streaming
\* capture is paused.
C19_GuardAtomic ==
  /\ [][is_tts_playing => transcription_queue' = transcription_queue]_vars
  /\ []((/\ ttsPc \notin {"cb_pause", "cb_paused"}
         /\ playPc \notin {"cb_resume", "cb_resumed"}
         /\ is_streaming
         /\ is_tts_playing) => is_paused)

\* C20: the step of _tts_callback that puts an audio on the playback queue
\* finds the streaming capture paused.
C20_PausedBeforeQueued ==
  [][(/\ tts_callback_queue
      /\ Len(audio_queue') > Len(audio_queue)
      /\ is_streaming) => is_paused]_vars

Position(log, a) == CHOOSE i \in DOMAIN log : log[i] = a

\* C14: the pipeline does not reorder.  Of two phrases of which the audios
\* were both taken for playback (the playback worker plays one audio at a
\* time, in the order it takes them), the audio of the phrase accepted first
\* was taken first.  Phrases are told apart by their text.
C14_NoReordering ==
  \A i, j \in DOMAIN transcription_queue :
    \A r, s \in Range(readyLog) :
      (/\ i < j
       /\ Count(transcription_queue, transcription_queue[i]) = 1
       /\ Count(transcription_queue, transcription_queue[j]) = 1
       /\ r.phrase = transcription_queue[i]
       /\ s.phrase = transcription_queue[j]
       /\ r.audio \in Range(takenLog)
       /\ s.audio \in Range(takenLog))
        => Position(takenLog, r.audio) < Position(takenLog, s.audio)

\* Two phrases have been accepted and the audios of both have been played to
\* the end.
C14_Witness ==
  /\ Len(transcription_queue) = 2
  /\ Len(finishedLog) = 2
  /\ \E r, s \in Range(readyLog) :
       /\ r.phrase = transcription_queue[1]
       /\ s.phrase = transcription_queue[2]
       /\ finishedLog = << r.audio, s.audio >>

\* The audio of the k-th accepted phrase, once it has been played to the end.
Played(k) == Len(finishedLog) >= k

\* C15: end-to-end progress.  In a run in which nothing fails and every
\* thread keeps running, every accepted phrase is put on the TTS queue as a
\* translation and its audio is eventually played to the end and its file
\* deleted; while an audio plays, is_tts_playing is True and capture is
\* paused; and after it the guard is eventually Listening with capture
\* resumed.
C15_EndToEndProgress ==
  /\ [](\A i \in DOMAIN tts_queue :
          tts_queue[i] = Translate(Source(tts_queue[i])))
  /\ [](playPc = "playing" => (is_tts_playing /\ is_paused))
  /\ \A k \in 1..MaxTurns :
       /\ (Len(transcription_queue) >= k)
             ~> (Played(k) /\ finishedLog[k] \notin files)
       /\ Played(k) ~> (~is_tts_playing /\ ~mic_paused /\ ~is_paused)

\* C21: a synthesis-ready event that finds is_tts_playing True leaves the
\* three guard flags as they are, and a warning is logged for it.
C21_ReadyWhileMuted ==
  [][(tts_callback_mute /\ is_tts_playing) =>
       (UNCHANGED guard /\ ordering_warning_logged)]_vars

\* C22: a "Finished playing" event that finds is_tts_playing False changes
\* none of is_tts_playing, mic_paused and is_paused and does not go on to
\* resume_streaming; a "Started playing" event never changes them.
C22_FinishedWhileListening ==
  [][/\ (play_finished /\ ~is_tts_playing) =>
          (UNCHANGED guard /\ playPc' = "remove")
     /\ play_started => UNCHANGED guard]_vars

\* The second audio has finished playing with is_tts_playing False, and
\* capture, paused for it, has not been resumed.
C22_Witness ==
  /\ Len(finishedLog) = 2
  /\ playPc = "remove"
  /\ is_streaming
  /\ ~is_tts_playing /\ mic_paused /\ is_paused

\* C23: no capture event (turn, termination, error) and no translation
\* step changes a guard flag, or changes what a later pause_streaming or
\* resume_streaming does.
C23_GuardFrame ==
  [][(\/ on_turn \/ on_terminated \/ on_error
      \/ translation_head \/ translation_get \/ translation_empty
      \/ translation_done \/ translation_raises) =>
       /\ UNCHANGED guard
       /\ \A paused \in BOOLEAN :
            /\ pause_streaming(is_streaming', paused)
                 = pause_streaming(is_streaming, paused)
            /\ resume_streaming(is_streaming', paused)
                 = resume_streaming(is_streaming, paused)]_vars

\* C24: the order of stop().  The capture adapter is stopped when every
\* worker has been signalled and right after the last join, and the
\* temporary files are released right after the capture adapter is stopped.
C24_StopOrder ==
  [][/\ stop_streaming => (~is_running /\ (audio_output => stop_playback))
     /\ (mainPc # "stop_capture" /\ mainPc' = "stop_capture")
          => mainPc = "join_tts"
     /\ (mainPc # "cleanup_unlink" /\ mainPc' = "cleanup_unlink")
          => mainPc = "stop_capture"]_vars

\* C25: cooperative cancellation.  No worker takes an item from its queue
\* once its stop signal is set.
C25_NoNewItemAfterStop ==
  [][/\ translation_get => is_running
     /\ tts_get => is_running
     /\ playback_get => ~stop_playback]_vars

\* C26: a turn that is not end-of-turn or not formatted is not accepted,
\* whatever its text, the pause flag and the last emitted text.
C26_PartialTurnsRejected ==
  \A ev \in TurnEvents :
    ~(ev.end_of_turn /\ ev.turn_is_formatted) =>
      ~TurnAccepted(ev, is_paused, last_processed_text, language_code)

\* Capture is streaming and not paused, and a turn that is not end-of-turn
\* carries a text the filter would accept from a formatted end-of-turn.
C26_Witness ==
  /\ mainPc = "streaming" /\ client = "live" /\ ~is_paused
  /\ \E ev \in TurnEvents :
       /\ ~ev.end_of_turn
       /\ FilterAccepts([ev EXCEPT !.end_of_turn = TRUE,
                                   !.turn_is_formatted = TRUE],
                        last_processed_text, language_code)

\* The text passes every test of the filter but the one for duplicates.
Acceptable(text, lang) ==
  /\ text # <<>>
  /\ LongerThan(text, min_length)
  /\ NotFiller(text, lang)

\* C27: deduplication remembers the last emitted phrase only.  The
\* remembered text is the last emission, an acceptable phrase is emitted
\* exactly when it differs from it (so A, B, A emits three phrases), and no
\* phrase is emitted twice in a row (A, A, B emits A and B).
C27_DedupRemembersLast ==
  /\ last_processed_text =
       IF transcription_queue = <<>> THEN NoText
       ELSE transcription_queue[Len(transcription_queue)]
  /\ \A i \in 1..(Len(transcription_queue) - 1) :
       transcription_queue[i] # transcription_queue[i + 1]
  /\ \A ev \in TurnEvents :
       (/\ ev.end_of_turn /\ ev.turn_is_formatted
        /\ Acceptable(strip(ev.transcript), language_code)) =>
         (FilterAccepts(ev, last_processed_text, language_code)
            <=> strip(ev.transcript) # last_processed_text)

\* The turns A, B, A have all been emitted.
C27_Witness ==
  /\ Len(transcription_queue) = 3
  /\ transcription_queue[1] = transcription_queue[3]
  /\ transcription_queue[1] # transcription_queue[2]

\* C28: the delivery thread does not wait in _on_turn.  While the session
\* delivers turns, the put on the translation queue an accepted turn makes
\* never finds the queue full, whatever the workers are doing.
C28_CaptureNeverBlocks ==
  client = "live" => ~Full(translation_queue)

\* A second phrase has been accepted and queued while the translation
\* worker is in the translate call for the first.
C28_Witness ==
  /\ client = "live"
  /\ transPc = "call"
  /\ Len(transcription_queue) = 2
  /\ Len(translation_queue) = 1

\* C29: guard flag consistency.  When _tts_callback and _audio_callback
\* are not in progress, is_tts_playing, mic_paused and is_paused have the
\* same value.
C29_GuardFlagsAgree ==
  (/\ ttsPc \notin {"cb_pause", "cb_paused", "cb_queue"}
   /\ playPc \notin {"cb_resume", "cb_resumed"}) =>
    (is_tts_playing = mic_paused /\ mic_paused = is_paused)

\* C30: the call of _tts_callback that set is_tts_playing also puts its
\* audio on the playback queue.
C30_MutedAudioQueued ==
  [][tts_callback_queue =>
       audio_queue' = Append(audio_queue, audio_path)]_vars

\* C31: the coordinator's filter passes whatever the capture filter
\* accepts.  In either language configuration, a turn _on_turn would accept
\* satisfies the condition of _translation_callback and is put on the
\* translation queue.
C31_SecondFilterPasses ==
  \A ev \in TurnEvents :
    (/\ client = "live"
     /\ TurnAccepted(ev, is_paused, last_processed_text, language_code)) =>
      LET text == strip(ev.transcript) IN
        /\ CoordinatorAccepts(text, TRUE)
        /\ translation_callback(translation_queue, text, TRUE, translator)
             = Append(translation_queue, text)

\* The Spanish configuration is streaming, and a turn is accepted whose
\* text is a filler word of the English configuration.
C31_Witness ==
  /\ language_code = "es"
  /\ client = "live" /\ mainPc = "streaming"
  /\ \E ev \in TurnEvents :
       /\ TurnAccepted(ev, is_paused, last_processed_text, language_code)
       /\ lower(strip(ev.transcript)) \in english_filler_words

\* How many of the items of a sequence of texts stand for the phrase.
Copies(texts, phrase) ==
  Cardinality({i \in DOMAIN texts : Source(texts[i]) = phrase})

\* How many times the phrase is in the pipeline before playback: waiting
\* for translation, in the translate call, waiting for synthesis, in the
\* synthesize call, or synthesized.
InPipeline(phrase) ==
  Copies(translation_queue, phrase)
    + (IF transPc = "call" /\ transItem = phrase THEN 1 ELSE 0)
    + Copies(tts_queue, phrase)
    + (IF ttsPc \in {"synth", "cb_mute"} /\ Source(ttsItem) = phrase
         THEN 1 ELSE 0)
    + Cardinality({i \in DOMAIN readyLog : readyLog[i].phrase = phrase})

\* C32: no duplication.  A phrase is in the pipeline at most as often as
\* it was accepted; every audio is a file of its own, is on the playback
\* queue or taken from it at most once, and only audios that were
\* synthesized are played; so no more audios are played than phrases were
\* accepted.
C32_NoDuplication ==
  /\ \A phrase \in Range(transcription_queue) :
       InPipeline(phrase) <= Count(transcription_queue, phrase)
  /\ \A i, j \in DOMAIN readyLog :
       readyLog[i].audio = readyLog[j].audio => i = j
  /\ LET handed == takenLog \o audio_queue IN
       /\ \A i, j \in DOMAIN handed : handed[i] = handed[j] => i = j
       /\ \A i \in DOMAIN handed :
            \E k \in DOMAIN readyLog : readyLog[k].audio = handed[i]
  /\ Len(returnedLog) <= Len(takenLog)
  /\ \A a \in Range(finishedLog) : Count(finishedLog, a) = 1
  /\ Len(finishedLog) <= Len(transcription_queue)

\* Two phrases went through every stage and the workers are idle again.
C32_Witness ==
  /\ Len(transcription_queue) = 2
  /\ Len(readyLog) = 2 /\ Len(takenLog) = 2 /\ Len(finishedLog) = 2
  /\ playPc = "head" /\ ttsPc = "head" /\ transPc = "head"

\* C33: stop() is idempotent and safe in every lifecycle state.  Once a
\* call of stop() has returned, after a start that failed as well as after
\* one that succeeded, is_running is False, capture is stopped, the
\* playback worker has its stop flag, and the temporary directory is gone;
\* a second call finds and leaves all that.
C33_StopIdempotent ==
  stopReturns >= 1 =>
    /\ ~is_running
    /\ ~is_streaming /\ client # "live"
    /\ audio_output => stop_playback
    /\ ~temp_dir

\* C34: last_processed_text changes only in the step that emits a phrase,
\* to that phrase, and never while capture is paused; so a turn that
\* repeats the remembered phrase is rejected in every state, also after a
\* mute period.
C34_LastEmittedFrame ==
  /\ [][(last_processed_text' # last_processed_text) =>
          (/\ ~is_paused
           /\ transcription_queue' =
                Append(transcription_queue, last_processed_text'))]_vars
  /\ [](\A ev \in TurnEvents :
          strip(ev.transcript) = last_processed_text =>
            ~TurnAccepted(ev, is_paused, last_processed_text, language_code))

\* One phrase was emitted and played, capture has been resumed, and the
\* session can deliver the same phrase again.
C34_Witness ==
  /\ Len(transcription_queue) = 1
  /\ Len(finishedLog) = 1
  /\ client = "live" /\ mainPc = "streaming"
  /\ ~is_tts_playing /\ ~mic_paused /\ ~is_paused
  /\ last_processed_text = transcription_queue[1]

====
